---- MODULE Spec2Model ----
(***************************************************************************)
(* JTAG scan-chain transport layer of rvdbg: the per-device IR/DR          *)
(* operations of jtag/device.go, run against a recording Scan Driver whose  *)
(* replies (captured bits, probed lengths, transport errors) are chosen     *)
(* nondeterministically.                                                    *)
(***************************************************************************)
EXTENDS Integers, Sequences, FiniteSets, TLC

VARIABLES info, dev, pc, call, scans, ret, ir, s, chainIR,
          gor, mu, serialized, fmc, jl, fld

vars == <<info, dev, pc, call, scans, ret, ir, s, chainIR,
          gor, mu, serialized, fmc, jl, fld>>

\* the operation under way on the Device, with its driver calls
deviceVars == <<info, dev, pc, call, scans, ret, ir, s, chainIR>>

\* the concurrent callers of a chain
callerVars == <<gor, mu, serialized>>

\* what lies beyond the Device: its callers, the flash driver, the J-Link
beyondDevice == <<gor, mu, serialized, fmc, jl, fld>>

(***************************************************************************)
(* Bounds                                                                   *)
(***************************************************************************)
\* devices on a chain
MaxDevs == 3
\* IR length of one TAP
MaxIRLen == 2
\* length of a DR payload handed to WrDR/RdWrDR, and of CheckDR's drlen
MaxDRLen == 2
\* largest chain DR length the probe reports
MaxProbe == 4
\* idle cycles handed to WrDR/RdWrDR
MaxIdle == 1
\* devices on a surveyed chain
MaxSurveyDevs == 2
\* IR length of a TAP of a surveyed chain
MaxSurveyIRLen == 2
\* DR bits beyond one that an instruction of a surveyed TAP selects
MaxSurveyExtraDR == 1
\* devices on a chain of simulated TAPs
MaxSimDevs == 3
\* IR length of a simulated TAP
MaxSimIRLen == 2

\* TAPs and IR bits per TAP of the chain that two callers share
MaxCallerDevs == 2

MaxCallerIRLen == 1

\* J-Link probes that a discovery scan finds
MaxJlinkDevs == 3

\* highest bit position of a register field
MaxFieldBit == 1

\* largest field value extracted from a register
MaxFieldVal == 10

(***************************************************************************)
(* Bit strings (package bitstr): a sequence of 0/1, first bit first.        *)
(***************************************************************************)
BitStrings(n) == [1..n -> {0, 1}]

BitStringsUpTo(n) == UNION {BitStrings(k) : k \in 0..n}

\* the nil *bitstr.BitString (no bit string at all)
NilBitString == <<-1>>

Ones(n) == [i \in 1..n |-> 1]

Zeros(n) == [i \in 1..n |-> 0]

\* the low width bits of x, most significant bit first
FromUint(x, width) == [i \in 1..width |-> (x \div (2 ^ (width - i))) % 2]

\* bitstr Tail: append the bits of b after the bits of a
TailBits(a, b) == a \o b

\* append n one bits
Tail1(a, n) == a \o Ones(n)

\* remove the first n bits
DropHead(a, n) == SubSeq(a, n + 1, Len(a))

\* remove the last n bits
DropTail(a, n) == SubSeq(a, 1, Len(a) - n)

RECURSIVE ToUint(_)
\* the bits read as an unsigned integer, most significant bit first
ToUint(a) == IF a = <<>> THEN 0 ELSE 2 * ToUint(SubSeq(a, 1, Len(a) - 1)) + a[Len(a)]

\* Split(lengths) for the single-piece case used by the device code
Split1(a, n) == ToUint(SubSeq(a, 1, n))

(***************************************************************************)
(* Errors: a record so that any two errors can be compared.                 *)
(***************************************************************************)
NilErr == [kind |-> "nil", ir |-> 0, n |-> 0, drlen |-> 0]

TransportErr(k) == [kind |-> k, ir |-> 0, n |-> 0, drlen |-> 0]

\* the transport failures the Scan Driver can report
DrvErrors == {TransportErr("usb"), TransportErr("timeout")}

\* fmt.Errorf("ir %d dr length is %d, expected %d", ir, n, drlen)
MismatchErr(i, n, drlen) == [kind |-> "mismatch", ir |-> i, n |-> n, drlen |-> drlen]

(***************************************************************************)
(* Chain: the TAP descriptors in physical order.                            *)
(***************************************************************************)
RECURSIVE SumIRLength(_, _, _)
\* sum of info[k].IRLength for k in from..to (0 based, inclusive)
SumIRLength(ch, from, to) ==
  IF from > to THEN 0 ELSE ch[from + 1].IRLength + SumIRLength(ch, from + 1, to)

irLengthBefore(ch, idx) == SumIRLength(ch, 0, idx - 1)

irLengthAfter(ch, idx) == SumIRLength(ch, idx + 1, Len(ch) - 1)

irLengthTotal(ch) == SumIRLength(ch, 0, Len(ch) - 1)

TapInfo(n) == [IRLength |-> n]

ChainsOf(maxDevs, maxIRLen) ==
  UNION {[1..k -> {TapInfo(n) : n \in 1..maxIRLen}] : k \in 1..maxDevs}

\* the two-device chain of the documented scenario
ExampleChain == <<TapInfo(5), TapInfo(4)>>

Chains == ChainsOf(MaxDevs, MaxIRLen) \cup {ExampleChain}

SurveyChains == ChainsOf(MaxSurveyDevs, MaxSurveyIRLen)

SimChains == ChainsOf(MaxSimDevs, MaxSimIRLen)

(***************************************************************************)
(* Device                                                                   *)
(***************************************************************************)
\* NewDevice taking the IR bits after the device from those before it
NewDevice_irlenAfterWrong(ch, idx) ==
  [idx         |-> idx,
   irlen       |-> ch[idx + 1].IRLength,
   irlenBefore |-> irLengthBefore(ch, idx),
   irlenAfter  |-> irLengthBefore(ch, idx),
   devsBefore  |-> idx,
   devsAfter   |-> Len(ch) - idx - 1]

\* NewDevice counting the device itself among those after it
NewDevice_devsAfterWrong(ch, idx) ==
  [idx         |-> idx,
   irlen       |-> ch[idx + 1].IRLength,
   irlenBefore |-> irLengthBefore(ch, idx),
   irlenAfter  |-> irLengthAfter(ch, idx),
   devsBefore  |-> idx,
   devsAfter   |-> Len(ch) - idx]

NewDevice(ch, idx) ==
  [idx         |-> idx,
   irlen       |-> ch[idx + 1].IRLength,
   irlenBefore |-> irLengthBefore(ch, idx),
   irlenAfter  |-> irLengthAfter(ch, idx),
   devsBefore  |-> idx,
   devsAfter   |-> Len(ch) - idx - 1]

(***************************************************************************)
(* Scan Driver.  A reply is what the driver answers to one call: err, and   *)
(* for a capturing scan the bits shifted out (as many as were shifted in,   *)
(* taken from tdo), for a length probe the length n.                        *)
(***************************************************************************)
Reply(err, tdo, n) == [err |-> err, tdo |-> tdo, n |-> n]

\* the bits a scan of len bits shifts out of the chain
Capture(src, len) == [i \in 1..len |-> src[((i - 1) % Len(src)) + 1]]

\* one call on the driver as the recording stub logs it, with its outcome
ScanRec(op, tdi, idle, capture, tdo, n, err) ==
  [op |-> op, tdi |-> tdi, idle |-> idle, capture |-> capture,
   tdo |-> tdo, n |-> n, err |-> err]

\* drv.ScanIR(tdi, capture)
ScanIR(r, tdi, capture) ==
  ScanRec("ScanIR", tdi, 0, capture,
          IF r.err = NilErr /\ capture THEN Capture(r.tdo, Len(tdi)) ELSE NilBitString,
          0, r.err)

\* drv.ScanDR(tdi, idle, capture)
ScanDR(r, tdi, idle, capture) ==
  ScanRec("ScanDR", tdi, idle, capture,
          IF r.err = NilErr /\ capture THEN Capture(r.tdo, Len(tdi)) ELSE NilBitString,
          0, r.err)

\* ch.drLength(): the live probe of the chain's total DR length
drLength(r) ==
  ScanRec("drLength", <<>>, 0, FALSE, NilBitString,
          IF r.err = NilErr THEN r.n ELSE 0, r.err)

(***************************************************************************)
(* Device operations.  Each takes the device, its arguments and the         *)
(* driver's replies rs to the calls it makes, in order, and yields the      *)
(* driver calls made and the values returned.                               *)
(***************************************************************************)
Result(sc, val, err) == [scans |-> sc, val |-> val, err |-> err]

\* WrIR padding the other devices with zeros
WrIR_zeroPadded(d, wr, rs) ==
  LET tdi == TailBits(TailBits(Zeros(d.irlenBefore), wr), Zeros(d.irlenAfter))
      sc  == ScanIR(rs[1], tdi, FALSE)
  IN  Result(<<sc>>, 0, sc.err)

\* WrIR with the two paddings exchanged
WrIR_padSwapped(d, wr, rs) ==
  LET tdi == Tail1(TailBits(Ones(d.irlenAfter), wr), d.irlenBefore)
      sc  == ScanIR(rs[1], tdi, FALSE)
  IN  Result(<<sc>>, 0, sc.err)

WrIR(d, wr, rs) ==
  LET tdi == Tail1(TailBits(Ones(d.irlenBefore), wr), d.irlenAfter)
      sc  == ScanIR(rs[1], tdi, FALSE)
  IN  Result(<<sc>>, 0, sc.err)

\* RdWrIR stripping the head by irlenAfter and the tail by irlenBefore
RdWrIR_stripSwapped(d, wr, rs) ==
  LET tdi == Tail1(TailBits(Ones(d.irlenBefore), wr), d.irlenAfter)
      sc  == ScanIR(rs[1], tdi, TRUE)
  IN  IF sc.err # NilErr
      THEN Result(<<sc>>, NilBitString, sc.err)
      ELSE Result(<<sc>>, DropTail(DropHead(sc.tdo, d.irlenAfter), d.irlenBefore), NilErr)

RdWrIR(d, wr, rs) ==
  LET tdi == Tail1(TailBits(Ones(d.irlenBefore), wr), d.irlenAfter)
      sc  == ScanIR(rs[1], tdi, TRUE)
  IN  IF sc.err # NilErr
      THEN Result(<<sc>>, NilBitString, sc.err)
      ELSE Result(<<sc>>, DropTail(DropHead(sc.tdo, d.irlenBefore), d.irlenAfter), NilErr)

\* WrDR not handing the idle cycles on
WrDR_idleDropped(d, wr, idle, rs) ==
  LET tdi == Tail1(TailBits(Ones(d.devsBefore), wr), d.devsAfter)
      sc  == ScanDR(rs[1], tdi, 0, FALSE)
  IN  Result(<<sc>>, 0, sc.err)

WrDR(d, wr, idle, rs) ==
  LET tdi == Tail1(TailBits(Ones(d.devsBefore), wr), d.devsAfter)
      sc  == ScanDR(rs[1], tdi, idle, FALSE)
  IN  Result(<<sc>>, 0, sc.err)

\* RdWrDR stripping the head only
RdWrDR_tailKept(d, wr, idle, rs) ==
  LET tdi == Tail1(TailBits(Ones(d.devsBefore), wr), d.devsAfter)
      sc  == ScanDR(rs[1], tdi, idle, TRUE)
  IN  IF sc.err # NilErr
      THEN Result(<<sc>>, NilBitString, sc.err)
      ELSE Result(<<sc>>, DropHead(sc.tdo, d.devsBefore), NilErr)

RdWrDR(d, wr, idle, rs) ==
  LET tdi == Tail1(TailBits(Ones(d.devsBefore), wr), d.devsAfter)
      sc  == ScanDR(rs[1], tdi, idle, TRUE)
  IN  IF sc.err # NilErr
      THEN Result(<<sc>>, NilBitString, sc.err)
      ELSE Result(<<sc>>, DropTail(DropHead(sc.tdo, d.devsBefore), d.devsAfter), NilErr)

\* testIRCapture looking at the lowest bit only
testIRCapture_lowBitOnly(d, rs) ==
  LET rd == RdWrIR(d, Ones(d.irlen), rs)
  IN  IF rd.err # NilErr
      THEN Result(rd.scans, FALSE, rd.err)
      ELSE Result(rd.scans, Split1(rd.val, d.irlen) % 2 = 1, NilErr)

\* the device's IR capture after shifting in all ones ends in binary 01
testIRCapture(d, rs) ==
  LET rd == RdWrIR(d, Ones(d.irlen), rs)
  IN  IF rd.err # NilErr
      THEN Result(rd.scans, FALSE, rd.err)
      ELSE Result(rd.scans, Split1(rd.val, d.irlen) % 4 = 1, NilErr)

GetIRLength(d) == d.irlen

\* GetDRLength subtracting the devices after the device only
GetDRLength_beforeKept(d, rs) ==
  LET sc == drLength(rs[1])
  IN  IF sc.err # NilErr
      THEN Result(<<sc>>, 0, sc.err)
      ELSE Result(<<sc>>, sc.n - d.devsAfter, NilErr)

GetDRLength(d, rs) ==
  LET sc == drLength(rs[1])
  IN  IF sc.err # NilErr
      THEN Result(<<sc>>, 0, sc.err)
      ELSE Result(<<sc>>, sc.n - d.devsAfter - d.devsBefore, NilErr)

\* CheckDR accepting a DR longer than expected
CheckDR_longAccepted(d, i, drlen, rs) ==
  LET w == WrIR(d, FromUint(i, d.irlen), <<rs[1]>>)
      g == GetDRLength(d, <<rs[2]>>)
      r == RdWrDR(d, Zeros(drlen), 0, <<rs[3]>>)
  IN  IF w.err # NilErr THEN Result(w.scans, 0, NilErr)
      ELSE IF g.err # NilErr THEN Result(w.scans \o g.scans, 0, NilErr)
      ELSE IF g.val < drlen
        THEN Result(w.scans \o g.scans, 0, MismatchErr(i, g.val, drlen))
      ELSE IF r.err # NilErr THEN Result(w.scans \o g.scans \o r.scans, 0, r.err)
      ELSE Result(w.scans \o g.scans \o r.scans, Split1(r.val, drlen), NilErr)

CheckDR(d, i, drlen, rs) ==
  LET w == WrIR(d, FromUint(i, d.irlen), <<rs[1]>>)
      g == GetDRLength(d, <<rs[2]>>)
      r == RdWrDR(d, Zeros(drlen), 0, <<rs[3]>>)
  IN  IF w.err # NilErr THEN Result(w.scans, 0, NilErr)
      ELSE IF g.err # NilErr THEN Result(w.scans \o g.scans, 0, NilErr)
      ELSE IF g.val # drlen
        THEN Result(w.scans \o g.scans, 0, MismatchErr(i, g.val, drlen))
      ELSE IF r.err # NilErr THEN Result(w.scans \o g.scans \o r.scans, 0, r.err)
      ELSE Result(w.scans \o g.scans \o r.scans, Split1(r.val, drlen), NilErr)

\* one report line of Survey: "ir <i> <text>" or "ir <i> drlen <n>"
Line(i, text, n) == [ir |-> i, text |-> text, n |-> n]

\* the body of Survey's loop probing the DR length whether or not the IR
\* write succeeded
SurveyBody_probeAfterFail(d, i, rs) ==
  LET w  == WrIR(d, FromUint(i, d.irlen), <<rs[1]>>)
      sc == drLength(rs[2])
  IN  IF w.err # NilErr
      THEN [scans |-> w.scans \o <<sc>>, line |-> Line(i, "can't write ir", 0)]
      ELSE IF sc.err # NilErr
      THEN [scans |-> w.scans \o <<sc>>, line |-> Line(i, "drlen unknown", 0)]
      ELSE [scans |-> w.scans \o <<sc>>,
            line |-> Line(i, "drlen", sc.n - d.devsAfter - d.devsBefore)]

\* the body of Survey's loop for IR value i: the driver calls and the line
SurveyBody(d, i, rs) ==
  LET w  == WrIR(d, FromUint(i, d.irlen), <<rs[1]>>)
      sc == drLength(rs[2])
  IN  IF w.err # NilErr
      THEN [scans |-> w.scans, line |-> Line(i, "can't write ir", 0)]
      ELSE IF sc.err # NilErr
      THEN [scans |-> w.scans \o <<sc>>, line |-> Line(i, "drlen unknown", 0)]
      ELSE [scans |-> w.scans \o <<sc>>,
            line |-> Line(i, "drlen", sc.n - d.devsAfter - d.devsBefore)]

\* the loop of Survey ending one value early
SurveyMore_short(d, i) == i + 1 < 2 ^ d.irlen

\* Survey's loop condition: ir < (1 << dev.irlen)
SurveyMore(d, i) == i < 2 ^ d.irlen


(***************************************************************************)
(* Inputs and driver replies                                                *)
(***************************************************************************)
\* what a caller hands to WrIR/RdWrIR: irlen bits, or by mistake none or
\* one too many
IRInputs(d) == BitStrings(d.irlen) \cup {<<>>, Ones(d.irlen + 1)}

DRInputs == BitStringsUpTo(MaxDRLen)

\* replies to a capturing scan that shifts len bits
ScanReplies(len) ==
  {Reply(NilErr, t, 0) : t \in BitStrings(len)} \cup {Reply(e, <<0>>, 0) : e \in DrvErrors}

\* replies to a scan without capture
WriteReplies == {Reply(e, <<0>>, 0) : e \in {NilErr} \cup DrvErrors}

\* replies to a DR length probe
ProbeReplies ==
  {Reply(NilErr, <<0>>, n) : n \in 0..MaxProbe} \cup {Reply(e, <<0>>, 0) : e \in DrvErrors}

\* the one transport failure injected during a survey
SurveyErrors == {TransportErr("timeout")}

SurveyWriteReplies == {Reply(e, <<0>>, 0) : e \in {NilErr} \cup SurveyErrors}

\* the DR width that instruction i selects on a surveyed TAP of IR length
\* irl: BYPASS (all ones) selects 1 bit, the others 1 to 1 + MaxSurveyExtraDR
TapDRWidth(irl, i) == IF i = 2 ^ irl - 1 THEN 1 ELSE 1 + (i % (MaxSurveyExtraDR + 1))

\* the probe after instruction i was written to a TAP of IR length irl of
\* chain ch: every other TAP is in BYPASS, or the probe fails
SurveyProbeReplies(ch, irl, i) ==
  {Reply(NilErr, <<0>>, Len(ch) - 1 + TapDRWidth(irl, i))}
    \cup {Reply(e, <<0>>, 0) : e \in SurveyErrors}

(***************************************************************************)
(* A chain of simulated TAPs behind a loopback driver: chainIR is the       *)
(* chain-wide IR (bits), the device whose call shifted it in (by, -1 when   *)
(* none or unknown) and the bits that call was given (wr).                  *)
(***************************************************************************)
ChainIRRec(bits, by, wr) == [bits |-> bits, by |-> by, wr |-> wr]

\* no simulated chain is attached
NoChainIR == ChainIRRec(<<>>, -1, <<>>)

\* the chain before any IR scan: no TAP is in BYPASS
ResetChainIR(ch) == ChainIRRec(Zeros(irLengthTotal(ch)), -1, <<>>)

\* the IR of TAP k (0 based) within the chain-wide IR bits
TapIR(ch, bits, k) ==
  SubSeq(bits, irLengthBefore(ch, k) + 1, irLengthBefore(ch, k) + ch[k + 1].IRLength)

RECURSIVE SumDRWidth(_, _, _)
\* the DR bits of TAPs k..Len(ch)-1 given the chain-wide IR bits
SumDRWidth(ch, bits, k) ==
  IF k >= Len(ch) THEN 0
  ELSE TapDRWidth(ch[k + 1].IRLength, ToUint(TapIR(ch, bits, k))) + SumDRWidth(ch, bits, k + 1)

\* the chain's total DR length under the loaded instructions
ChainDRLength(ch, bits) == SumDRWidth(ch, bits, 0)

\* the loopback driver answers a capturing IR scan with the sequence it
\* was given before, or fails
LoopbackReplies(c) ==
  {Reply(NilErr, c.bits, 0)} \cup {Reply(e, <<0>>, 0) : e \in SurveyErrors}

\* the probe of the simulated chain
SimProbeReplies(ch, c) ==
  {Reply(NilErr, <<0>>, ChainDRLength(ch, c.bits))}
    \cup {Reply(e, <<0>>, 0) : e \in SurveyErrors}

\* the chain after the IR scan sc made for device idx with bits wr: a
\* failed scan leaves the IR as it was or as shifted, the writer unknown
AfterIRScan(c, sc, idx, wr) ==
  IF sc.err = NilErr
  THEN {ChainIRRec(sc.tdi, idx, wr)}
  ELSE {ChainIRRec(b, -1, <<>>) : b \in {c.bits, sc.tdi}}

\* the IR values a caller hands to CheckDR
IRValues(d) == 0..(2 ^ d.irlen - 1)

\* an invocation: the operation and its arguments (those it does not take are 0)
CallRec(op, idx, wr, idle, i, drlen) ==
  [op |-> op, idx |-> idx, wr |-> wr, idle |-> idle, ir |-> i, drlen |-> drlen]

NoCall == CallRec("none", 0, <<>>, 0, 0, 0)

Call(op, wr, idle, i, drlen) == CallRec(op, 0, wr, idle, i, drlen)

NoRet == [val |-> 0, err |-> NilErr]

(***************************************************************************)
(* State machine                                                            *)
(***************************************************************************)
InitOn(chains) ==
  /\ info \in chains
  /\ dev = NewDevice(info, 0)
  /\ pc = "idle"
  /\ call = NoCall
  /\ scans = <<>>
  /\ ret = NoRet
  /\ ir = 0
  /\ s = <<>>

\* the callers of a chain: two goroutines
Callers == {"a", "b"}

\* where a caller stands: outside any operation (idle), waiting for the
\* chain's lock (wait), inside the operation op between driver calls (run) or
\* inside a driver call (scan); todo are the driver calls the operation has
\* still to make before its next decision, n the IR value Survey's loop is
\* at; began says the operation has made a driver call, cut that another
\* caller's driver call began since.
CallerRec(p, op, todo, n, began, cut) ==
  [pc |-> p, op |-> op, todo |-> todo, n |-> n, began |-> began, cut |-> cut]

IdleCaller == CallerRec("idle", "none", <<>>, 0, FALSE, FALSE)

NoCallers == [g \in Callers |-> IdleCaller]

\* no flash driver operation under way
NoFlash == [pc |-> "idle", op |-> "none", log |-> <<>>, err |-> NilErr]

\* no Jlink: the nil *Jlink
NilJlink == [ctx |-> "nil", dev |-> <<>>]

\* the J-Link library is not initialised and no call on it is under way
NoJlink ==
  [pc |-> "idle", op |-> "none", calls |-> <<>>, val |-> NilJlink, err |-> NilErr,
   j |-> NilJlink]

\* a Field as a register description declares it: the cache is not valid
NewField(msb, lsb, enums) ==
  [Name |-> "F", Msb |-> msb, Lsb |-> lsb, Descr |-> "descr", Enums |-> enums,
   cacheValid |-> FALSE, cacheVal |-> 0]

\* no register field is on display
NoField ==
  [pc |-> "idle", f |-> NewField(0, 0, <<>>), x |-> 0, out |-> <<>>,
   shown |-> FALSE, prev |-> 0, was |-> [shown |-> FALSE, prev |-> 0]]

\* nothing but the Device is in use
Detached ==
  /\ gor = NoCallers
  /\ mu = "free"
  /\ serialized = TRUE
  /\ fmc = NoFlash
  /\ jl = NoJlink
  /\ fld = NoField

Init == InitOn(Chains) /\ chainIR = NoChainIR /\ Detached

\* an operation that leaves the Device addressing TAP 0
Returned_devReset(c, r) ==
  /\ pc' = "done"
  /\ call' = c
  /\ scans' = r.scans
  /\ ret' = [val |-> r.val, err |-> r.err]
  /\ dev' = NewDevice(info, 0)
  /\ UNCHANGED <<info, ir, s>>

\* an operation has run to its return statement
Returned(c, r) ==
  /\ pc' = "done"
  /\ call' = c
  /\ scans' = r.scans
  /\ ret' = [val |-> r.val, err |-> r.err]
  /\ UNCHANGED <<info, dev, ir, s>>

DoNewDevice ==
  /\ UNCHANGED <<chainIR, beyondDevice>>
  /\ pc = "idle"
  /\ \E idx \in 0..(Len(info) - 1) :
       /\ dev' = NewDevice(info, idx)
       /\ call' = CallRec("NewDevice", idx, <<>>, 0, 0, 0)
  /\ pc' = "done"
  /\ UNCHANGED <<info, scans, ret, ir, s>>

DoWrIR ==
  /\ UNCHANGED <<chainIR, beyondDevice>>
  /\ pc = "idle"
  /\ \E wr \in IRInputs(dev) : \E r \in WriteReplies :
       Returned(Call("WrIR", wr, 0, 0, 0), WrIR(dev, wr, <<r>>))

DoRdWrIR ==
  /\ UNCHANGED <<chainIR, beyondDevice>>
  /\ pc = "idle"
  /\ \E wr \in IRInputs(dev) :
       \E r \in ScanReplies(dev.irlenBefore + Len(wr) + dev.irlenAfter) :
         Returned(Call("RdWrIR", wr, 0, 0, 0), RdWrIR(dev, wr, <<r>>))

DoWrDR ==
  /\ UNCHANGED <<chainIR, beyondDevice>>
  /\ pc = "idle"
  /\ \E wr \in DRInputs : \E idle \in 0..MaxIdle : \E r \in WriteReplies :
       Returned(Call("WrDR", wr, idle, 0, 0), WrDR(dev, wr, idle, <<r>>))

DoRdWrDR ==
  /\ UNCHANGED <<chainIR, beyondDevice>>
  /\ pc = "idle"
  /\ \E wr \in DRInputs : \E idle \in 0..MaxIdle :
       \E r \in ScanReplies(dev.devsBefore + Len(wr) + dev.devsAfter) :
         Returned(Call("RdWrDR", wr, idle, 0, 0), RdWrDR(dev, wr, idle, <<r>>))

DoTestIRCapture ==
  /\ UNCHANGED <<chainIR, beyondDevice>>
  /\ pc = "idle"
  /\ \E r \in ScanReplies(dev.irlenBefore + dev.irlen + dev.irlenAfter) :
       Returned(Call("testIRCapture", <<>>, 0, 0, 0), testIRCapture(dev, <<r>>))

DoGetDRLength ==
  /\ UNCHANGED <<chainIR, beyondDevice>>
  /\ pc = "idle"
  /\ \E r \in ProbeReplies :
       Returned(Call("GetDRLength", <<>>, 0, 0, 0), GetDRLength(dev, <<r>>))

DoCheckDR ==
  /\ UNCHANGED <<chainIR, beyondDevice>>
  /\ pc = "idle"
  /\ \E i \in IRValues(dev) : \E drlen \in 0..MaxDRLen :
       \E r1 \in WriteReplies : \E r2 \in ProbeReplies :
         \E r3 \in ScanReplies(dev.devsBefore + drlen + dev.devsAfter) :
           Returned(Call("CheckDR", <<>>, 0, i, drlen), CheckDR(dev, i, drlen, <<r1, r2, r3>>))

\* Survey is entered: s := []string{}, ir := 0
SurveyBegin ==
  /\ UNCHANGED <<chainIR, beyondDevice>>
  /\ pc = "idle"
  /\ pc' = "survey"
  /\ call' = Call("Survey", <<>>, 0, 0, 0)
  /\ scans' = <<>>
  /\ s' = <<>>
  /\ ir' = 0
  /\ UNCHANGED <<info, dev, ret>>

\* one pass of Survey's loop
SurveyIter ==
  /\ UNCHANGED <<chainIR, beyondDevice>>
  /\ pc = "survey"
  /\ SurveyMore(dev, ir)
  /\ \E r1 \in SurveyWriteReplies : \E r2 \in SurveyProbeReplies(info, info[dev.idx + 1].IRLength, ir) :
       LET b == SurveyBody(dev, ir, <<r1, r2>>)
       IN  /\ scans' = scans \o b.scans
           /\ s' = Append(s, b.line)
  /\ ir' = ir + 1
  /\ UNCHANGED <<info, dev, pc, call, ret>>

\* the loop is over: return strings.Join(s, "\n")
SurveyEnd ==
  /\ UNCHANGED <<chainIR, beyondDevice>>
  /\ pc = "survey"
  /\ ~SurveyMore(dev, ir)
  /\ pc' = "done"
  /\ ret' = [val |-> s, err |-> NilErr]
  /\ UNCHANGED <<info, dev, call, scans, ir, s>>

\* the caller takes the result; the device is ready for the next call
Return ==
  /\ UNCHANGED <<chainIR, beyondDevice>>
  /\ pc = "done"
  /\ pc' = "idle"
  /\ call' = NoCall
  /\ scans' = <<>>
  /\ ret' = NoRet
  /\ ir' = 0
  /\ s' = <<>>
  /\ UNCHANGED <<info, dev>>

Next ==
  \/ DoNewDevice
  \/ DoWrIR
  \/ DoRdWrIR
  \/ DoWrDR
  \/ DoRdWrDR
  \/ DoTestIRCapture
  \/ DoGetDRLength
  \/ DoCheckDR
  \/ Return

Spec == Init /\ [][Next]_vars

InitSurvey == InitOn(SurveyChains) /\ chainIR = NoChainIR /\ Detached

NextSurvey ==
  \/ DoNewDevice
  \/ SurveyBegin
  \/ SurveyIter
  \/ SurveyEnd
  \/ Return

SpecSurvey == InitSurvey /\ [][NextSurvey]_vars

(***************************************************************************)
(* The same operations on the chain of simulated TAPs                       *)
(***************************************************************************)
InitSim == InitOn(SimChains) /\ chainIR = ResetChainIR(info) /\ Detached

SimWrIR ==
  /\ pc = "idle"
  /\ \E wr \in BitStrings(dev.irlen) : \E r \in SurveyWriteReplies :
       LET res == WrIR(dev, wr, <<r>>)
       IN  /\ Returned(Call("WrIR", wr, 0, 0, 0), res)
           /\ chainIR' \in AfterIRScan(chainIR, res.scans[1], dev.idx, wr)
  /\ UNCHANGED beyondDevice

SimRdWrIR ==
  /\ pc = "idle"
  /\ \E wr \in BitStrings(dev.irlen) : \E r \in LoopbackReplies(chainIR) :
       LET res == RdWrIR(dev, wr, <<r>>)
       IN  /\ Returned(Call("RdWrIR", wr, 0, 0, 0), res)
           /\ chainIR' \in AfterIRScan(chainIR, res.scans[1], dev.idx, wr)
  /\ UNCHANGED beyondDevice

SimGetDRLength ==
  /\ pc = "idle"
  /\ \E r \in SimProbeReplies(info, chainIR) :
       Returned(Call("GetDRLength", <<>>, 0, 0, 0), GetDRLength(dev, <<r>>))
  /\ UNCHANGED <<chainIR, beyondDevice>>

NextSim ==
  \/ DoNewDevice
  \/ SimWrIR
  \/ SimRdWrIR
  \/ SimGetDRLength
  \/ Return

SpecSim == InitSim /\ [][NextSim]_vars

(***************************************************************************)
(* Survey on the chain of simulated TAPs                                    *)
(***************************************************************************)
InitSimSurvey == InitOn(SurveyChains) /\ chainIR = ResetChainIR(info) /\ Detached

\* one pass of Survey's loop: the IR write reaches the TAPs, the probe
\* measures them
SimSurveyIter ==
  /\ pc = "survey"
  /\ SurveyMore(dev, ir)
  /\ \E r1 \in SurveyWriteReplies :
       LET wr == FromUint(ir, dev.irlen)
           w  == WrIR(dev, wr, <<r1>>)
       IN  \E c \in AfterIRScan(chainIR, w.scans[1], dev.idx, wr) :
             \E r2 \in SimProbeReplies(info, c) :
               LET b == SurveyBody(dev, ir, <<r1, r2>>)
               IN  /\ scans' = scans \o b.scans
                   /\ s' = Append(s, b.line)
                   /\ chainIR' = c
  /\ ir' = ir + 1
  /\ UNCHANGED <<info, dev, pc, call, ret, beyondDevice>>

NextSimSurvey ==
  \/ DoNewDevice
  \/ SurveyBegin
  \/ SimSurveyIter
  \/ SurveyEnd
  \/ Return

SpecSimSurvey == InitSimSurvey /\ [][NextSimSurvey]_vars

(***************************************************************************)
(* Every operation of a Device, Survey included, on the survey chains       *)
(***************************************************************************)
NextAll ==
  \/ DoNewDevice
  \/ DoWrIR
  \/ DoRdWrIR
  \/ DoWrDR
  \/ DoRdWrDR
  \/ DoTestIRCapture
  \/ DoGetDRLength
  \/ DoCheckDR
  \/ SurveyBegin
  \/ SurveyIter
  \/ SurveyEnd
  \/ Return

SpecAll == InitSurvey /\ [][NextAll]_vars

(***************************************************************************)
(* Two callers on one chain.  The Device holds no lock: an operation is a   *)
(* sequence of driver calls made by the calling goroutine, one after the    *)
(* other, each blocking until the driver returns.  Callers either go        *)
(* through one lock per chain (serialized) or do not.                       *)
(***************************************************************************)
CallerChains == ChainsOf(MaxCallerDevs, MaxCallerIRLen)

\* the Device a caller operates: a the first TAP's, b the last TAP's
CallerDev(g) == NewDevice(info, IF g = "a" THEN 0 ELSE Len(info) - 1)

\* the driver calls of an operation, by kind and in order
ScanOps(sc) == [k \in DOMAIN sc |-> sc[k].op]

\* replies to a capturing scan of len bits: zeros, or the injected failure
CaptureReplies(len) ==
  {Reply(NilErr, Zeros(len), 0)} \cup {Reply(e, <<0>>, 0) : e \in SurveyErrors}

\* the sequences of driver calls that WrIR can make
WrIRPlans(d) ==
  {ScanOps(WrIR(d, wr, <<r>>).scans) : wr \in BitStrings(d.irlen), r \in SurveyWriteReplies}

\* the sequences of driver calls that CheckDR can make
CheckDRPlans(d) ==
  UNION {{ScanOps(CheckDR(d, i, drlen, <<r1, r2, r3>>).scans) :
            r1 \in SurveyWriteReplies, r2 \in ProbeReplies,
            r3 \in CaptureReplies(d.devsBefore + drlen + d.devsAfter)} :
         <<i, drlen>> \in IRValues(d) \X (0..MaxDRLen)}

\* Survey decides its driver calls one loop pass at a time
Plans(op, d) ==
  IF op = "WrIR" THEN WrIRPlans(d)
  ELSE IF op = "CheckDR" THEN CheckDRPlans(d)
  ELSE {<<>>}

InitCallers ==
  /\ InitOn(CallerChains)
  /\ chainIR = NoChainIR
  /\ gor = NoCallers
  /\ mu = "free"
  /\ serialized \in BOOLEAN
  /\ fmc = NoFlash
  /\ jl = NoJlink
  /\ fld = NoField

\* a goroutine calls an operation of its Device
GoCall(g) ==
  /\ gor[g].pc = "idle"
  /\ \E op \in {"WrIR", "CheckDR", "Survey"} : \E plan \in Plans(op, CallerDev(g)) :
       gor' = [gor EXCEPT ![g] =
                 CallerRec(IF serialized THEN "wait" ELSE "run", op, plan, 0, FALSE, FALSE)]
  /\ UNCHANGED <<deviceVars, mu, serialized, fmc, jl, fld>>

\* a serialized caller takes the chain's lock
GoEnter(g) ==
  /\ gor[g].pc = "wait"
  /\ mu = "free"
  /\ mu' = g
  /\ gor' = [gor EXCEPT ![g].pc = "run"]
  /\ UNCHANGED <<deviceVars, serialized, fmc, jl, fld>>

\* Survey starts a pass of its loop
GoSurveyIter(g) ==
  /\ gor[g].pc = "run"
  /\ gor[g].op = "Survey"
  /\ gor[g].todo = <<>>
  /\ SurveyMore(CallerDev(g), gor[g].n)
  /\ \E r1 \in SurveyWriteReplies :
       \E r2 \in SurveyProbeReplies(info, CallerDev(g).irlen, gor[g].n) :
         gor' = [gor EXCEPT
                   ![g].todo = ScanOps(SurveyBody(CallerDev(g), gor[g].n, <<r1, r2>>).scans),
                   ![g].n = gor[g].n + 1]
  /\ UNCHANGED <<deviceVars, mu, serialized, fmc, jl, fld>>

\* the operation calls the driver
GoScanBegin(g) ==
  /\ gor[g].pc = "run"
  /\ gor[g].todo # <<>>
  /\ gor' = [h \in Callers |->
               IF h = g THEN [gor[g] EXCEPT !.pc = "scan"]
               ELSE IF gor[h].pc \in {"run", "scan"} /\ gor[h].began
                 THEN [gor[h] EXCEPT !.cut = TRUE]
               ELSE gor[h]]
  /\ UNCHANGED <<deviceVars, mu, serialized, fmc, jl, fld>>

\* the driver returns to the operation
GoScanEnd(g) ==
  /\ gor[g].pc = "scan"
  /\ gor' = [gor EXCEPT ![g] =
               CallerRec("run", gor[g].op, Tail(gor[g].todo), gor[g].n, TRUE, FALSE)]
  /\ UNCHANGED <<deviceVars, mu, serialized, fmc, jl, fld>>

\* an operation returning whatever driver calls it has still to make
GoReturn_early(g) ==
  /\ gor[g].pc = "run"
  /\ gor' = [gor EXCEPT ![g].pc = "idle"]
  /\ mu' = IF mu = g THEN "free" ELSE mu
  /\ UNCHANGED <<deviceVars, serialized, fmc, jl, fld>>

\* the operation returns to its caller, which releases the lock it took
GoReturn(g) ==
  /\ gor[g].pc = "run"
  /\ gor[g].todo = <<>>
  /\ gor[g].op = "Survey" => ~SurveyMore(CallerDev(g), gor[g].n)
  /\ gor' = [gor EXCEPT ![g] = IdleCaller]
  /\ mu' = IF mu = g THEN "free" ELSE mu
  /\ UNCHANGED <<deviceVars, serialized, fmc, jl, fld>>

NextCallers ==
  \E g \in Callers :
    \/ GoCall(g)
    \/ GoEnter(g)
    \/ GoSurveyIter(g)
    \/ GoScanBegin(g)
    \/ GoScanEnd(g)
    \/ GoReturn(g)

SpecCallers == InitCallers /\ [][NextCallers]_vars

(***************************************************************************)
(* gd32vf103 flash driver.  The FMC peripheral's register accesses (Rd,     *)
(* Wr, Set, Clr) are calls that succeed or fail; fmc.log records them in    *)
(* order, each with its outcome.                                            *)
(***************************************************************************)
\* bits of FMC_CTL0
ctlOBWEN == 512

ctlLK == 128

ctlSTART == 64

ctlMER == 4

\* a 32-bit register value as its upper and lower 16 bits
Word(hi, lo) == <<hi, lo>>

\* the unlock sequence written to KEY0: 0x45670123, 0xCDEF89AB
unlockKey1 == Word(17767, 291)

unlockKey2 == Word(52719, 35243)

\* one register access: val is the value or bits handed over, rd the value
\* read back by Rd
PeriphCall(op, reg, val, rd, err) ==
  [op |-> op, reg |-> reg, val |-> val, rd |-> rd, err |-> err]

\* what the peripheral answers to one access
PeriphReply(err, val) == [err |-> err, val |-> val]

\* fmc.Rd(drv, reg)
FmcRd(reg, r) ==
  PeriphCall("Rd", reg, Word(0, 0), IF r.err = NilErr THEN r.val ELSE Word(0, 0), r.err)

\* fmc.Wr(drv, reg, val)
FmcWr(reg, val, r) == PeriphCall("Wr", reg, val, Word(0, 0), r.err)

\* fmc.Set(drv, reg, bits)
FmcSet(reg, bits, r) == PeriphCall("Set", reg, Word(0, bits), Word(0, 0), r.err)

\* fmc.Clr(drv, reg, bits)
FmcClr(reg, bits, r) == PeriphCall("Clr", reg, Word(0, bits), Word(0, 0), r.err)

\* ctl & ctlLK == 0
LockBitClear(ctl) == (ctl[2] \div ctlLK) % 2 = 0

FlashResult(log, err) == [log |-> log, err |-> err]

\* unlock writing the two keys in the opposite order
unlock_keysSwapped(rs) ==
  LET rd == FmcRd("CTL0", rs[1])
      k1 == FmcWr("KEY0", unlockKey2, rs[2])
      k2 == FmcWr("KEY0", unlockKey1, rs[3])
      cl == FmcWr("CTL0", Word(0, 0), rs[4])
  IN  IF rd.err # NilErr THEN FlashResult(<<rd>>, rd.err)
      ELSE IF LockBitClear(rd.rd) THEN FlashResult(<<rd>>, NilErr)
      ELSE IF k1.err # NilErr THEN FlashResult(<<rd, k1>>, k1.err)
      ELSE IF k2.err # NilErr THEN FlashResult(<<rd, k1, k2>>, k2.err)
      ELSE FlashResult(<<rd, k1, k2, cl>>, cl.err)

\* drv.unlock(), rs the peripheral's replies to its accesses
unlock(rs) ==
  LET rd == FmcRd("CTL0", rs[1])
      k1 == FmcWr("KEY0", unlockKey1, rs[2])
      k2 == FmcWr("KEY0", unlockKey2, rs[3])
      cl == FmcWr("CTL0", Word(0, 0), rs[4])
  IN  IF rd.err # NilErr THEN FlashResult(<<rd>>, rd.err)
      ELSE IF LockBitClear(rd.rd) THEN FlashResult(<<rd>>, NilErr)
      ELSE IF k1.err # NilErr THEN FlashResult(<<rd, k1>>, k1.err)
      ELSE IF k2.err # NilErr THEN FlashResult(<<rd, k1, k2>>, k2.err)
      ELSE FlashResult(<<rd, k1, k2, cl>>, cl.err)

\* drv.lock()
lock(rs) ==
  LET lk == FmcSet("CTL0", ctlLK, rs[1])
  IN  FlashResult(<<lk>>, lk.err)

\* EraseAll locking the flash whatever the clearing of MER gave
EraseAll_lockAlways(rs) ==
  LET u  == unlock(SubSeq(rs, 1, 4))
      m  == FmcSet("CTL0", ctlMER, rs[5])
      st == FmcSet("CTL0", ctlSTART, rs[6])
      c  == FmcClr("CTL0", ctlMER, rs[7])
      l  == lock(<<rs[8]>>)
  IN  IF u.err # NilErr THEN u
      ELSE IF m.err # NilErr THEN FlashResult(u.log \o <<m>>, m.err)
      ELSE IF st.err # NilErr THEN FlashResult(u.log \o <<m, st>>, st.err)
      ELSE FlashResult(u.log \o <<m, st, c>> \o l.log, l.err)

\* drv.EraseAll(), rs the peripheral's replies: four for unlock, then one
\* per step
EraseAll(rs) ==
  LET u  == unlock(SubSeq(rs, 1, 4))
      m  == FmcSet("CTL0", ctlMER, rs[5])
      st == FmcSet("CTL0", ctlSTART, rs[6])
      c  == FmcClr("CTL0", ctlMER, rs[7])
      l  == lock(<<rs[8]>>)
  IN  IF u.err # NilErr THEN u
      ELSE IF m.err # NilErr THEN FlashResult(u.log \o <<m>>, m.err)
      ELSE IF st.err # NilErr THEN FlashResult(u.log \o <<m, st>>, st.err)
      ELSE IF c.err # NilErr THEN FlashResult(u.log \o <<m, st, c>>, c.err)
      ELSE FlashResult(u.log \o <<m, st, c>> \o l.log, l.err)

\* the values CTL0 can read as
CtlValues ==
  {Word(0, lk + st + mer + ob) : lk \in {0, ctlLK}, st \in {0, ctlSTART},
                                 mer \in {0, ctlMER}, ob \in {0, ctlOBWEN}}

\* replies to a register read
RdReplies ==
  {PeriphReply(NilErr, v) : v \in CtlValues} \cup {PeriphReply(e, Word(0, 0)) : e \in DrvErrors}

\* replies to a register write, set or clear
WrReplies == {PeriphReply(e, Word(0, 0)) : e \in {NilErr} \cup DrvErrors}

\* the ways the peripheral can answer the accesses of one operation
FmcReplies(n) == {<<r>> \o w : r \in RdReplies, w \in [1..(n - 1) -> WrReplies]}

InitFlash ==
  /\ InitOn({ExampleChain})
  /\ chainIR = NoChainIR
  /\ gor = NoCallers
  /\ mu = "free"
  /\ serialized = TRUE
  /\ fmc = NoFlash
  /\ jl = NoJlink
  /\ fld = NoField

\* a flash driver operation has run to its return statement
FlashReturned(op, r) ==
  /\ fmc' = [pc |-> "done", op |-> op, log |-> r.log, err |-> r.err]
  /\ UNCHANGED <<deviceVars, callerVars, jl, fld>>

DoEraseAll ==
  /\ fmc.pc = "idle"
  /\ \E rs \in FmcReplies(8) : FlashReturned("EraseAll", EraseAll(rs))

DoUnlock ==
  /\ fmc.pc = "idle"
  /\ \E rs \in FmcReplies(4) : FlashReturned("unlock", unlock(rs))

DoLock ==
  /\ fmc.pc = "idle"
  /\ \E r \in WrReplies : FlashReturned("lock", lock(<<r>>))

\* the caller takes the result
FlashReturn ==
  /\ fmc.pc = "done"
  /\ fmc' = NoFlash
  /\ UNCHANGED <<deviceVars, callerVars, jl, fld>>

NextFlash ==
  \/ DoEraseAll
  \/ DoUnlock
  \/ DoLock
  \/ FlashReturn

SpecFlash == InitFlash /\ [][NextFlash]_vars

(***************************************************************************)
(* J-Link library wrapper.  jl.calls records the calls made on libjaylink   *)
(* in order, each with its outcome; jl.j is the Jlink the program holds.    *)
(***************************************************************************)
\* "device index %d out of range"
IndexErr(idx) == [kind |-> "index out of range", ir |-> 0, n |-> idx, drlen |-> 0]

\* one call on libjaylink: its name, its error and the devices it returned
LibCall(name, err, out) == [name |-> name, err |-> err, out |-> out]

JlinkResult(calls, val, err) == [calls |-> calls, val |-> val, err |-> err]

\* Init leaving the context open when the discovery scan fails
JlinkInit_leakOnScan(rs, devs) ==
  LET i  == LibCall("Init", rs[1], <<>>)
      cb == LibCall("LogSetCallback", rs[2], <<>>)
      lv == LibCall("LogSetLevel", rs[3], <<>>)
      ds == LibCall("DiscoveryScan", rs[4], <<>>)
      gd == LibCall("GetDevices", rs[5], IF rs[5] = NilErr THEN devs ELSE <<>>)
      ex == LibCall("Exit", NilErr, <<>>)
  IN  IF i.err # NilErr THEN JlinkResult(<<i>>, NilJlink, i.err)
      ELSE IF cb.err # NilErr THEN JlinkResult(<<i, cb, ex>>, NilJlink, cb.err)
      ELSE IF lv.err # NilErr THEN JlinkResult(<<i, cb, lv, ex>>, NilJlink, lv.err)
      ELSE IF ds.err # NilErr THEN JlinkResult(<<i, cb, lv, ds>>, NilJlink, ds.err)
      ELSE IF gd.err # NilErr THEN JlinkResult(<<i, cb, lv, ds, gd, ex>>, NilJlink, gd.err)
      ELSE JlinkResult(<<i, cb, lv, ds, gd>>, [ctx |-> "ctx", dev |-> gd.out], NilErr)

\* jlink.Init(), rs the errors of the five library calls, devs the devices
\* the library has discovered
JlinkInit(rs, devs) ==
  LET i  == LibCall("Init", rs[1], <<>>)
      cb == LibCall("LogSetCallback", rs[2], <<>>)
      lv == LibCall("LogSetLevel", rs[3], <<>>)
      ds == LibCall("DiscoveryScan", rs[4], <<>>)
      gd == LibCall("GetDevices", rs[5], IF rs[5] = NilErr THEN devs ELSE <<>>)
      ex == LibCall("Exit", NilErr, <<>>)
  IN  IF i.err # NilErr THEN JlinkResult(<<i>>, NilJlink, i.err)
      ELSE IF cb.err # NilErr THEN JlinkResult(<<i, cb, ex>>, NilJlink, cb.err)
      ELSE IF lv.err # NilErr THEN JlinkResult(<<i, cb, lv, ex>>, NilJlink, lv.err)
      ELSE IF ds.err # NilErr THEN JlinkResult(<<i, cb, lv, ds, ex>>, NilJlink, ds.err)
      ELSE IF gd.err # NilErr THEN JlinkResult(<<i, cb, lv, ds, gd, ex>>, NilJlink, gd.err)
      ELSE JlinkResult(<<i, cb, lv, ds, gd>>, [ctx |-> "ctx", dev |-> gd.out], NilErr)

\* j.Shutdown()
Shutdown(j) ==
  JlinkResult(<<LibCall("FreeDevices", NilErr, j.dev), LibCall("Exit", NilErr, <<>>)>>,
              NilJlink, NilErr)

\* j.NumDevices()
NumDevices(j) == JlinkResult(<<>>, Len(j.dev), NilErr)

\* j.DeviceByIndex(idx)
DeviceByIndex(j, idx) ==
  IF idx < 0 \/ idx >= Len(j.dev)
  THEN JlinkResult(<<>>, "nil", IndexErr(idx))
  ELSE JlinkResult(<<>>, j.dev[idx + 1], NilErr)

\* the probes on the bus, by serial number
Serials == {"sn1", "sn2"}

\* the device lists a discovery can give
DeviceLists == UNION {[1..n -> Serials] : n \in 0..MaxJlinkDevs}

\* the errors of the five library calls of Init
InitErrors == [1..5 -> {NilErr} \cup SurveyErrors]

InitJlink ==
  /\ InitOn({ExampleChain})
  /\ chainIR = NoChainIR
  /\ gor = NoCallers
  /\ mu = "free"
  /\ serialized = TRUE
  /\ fmc = NoFlash
  /\ jl = NoJlink
  /\ fld = NoField

\* a call on the wrapper has run to its return statement; j is the Jlink
\* the program holds from then on
JlinkReturned(op, r, j) ==
  /\ jl' = [pc |-> "done", op |-> op, calls |-> r.calls, val |-> r.val, err |-> r.err,
            j |-> j]
  /\ UNCHANGED <<deviceVars, callerVars, fmc, fld>>

DoJlinkInit ==
  /\ jl.pc = "idle"
  /\ jl.j = NilJlink
  /\ \E rs \in InitErrors : \E devs \in DeviceLists :
       LET r == JlinkInit(rs, devs)
       IN  JlinkReturned("Init", r, r.val)

DoShutdown ==
  /\ jl.pc = "idle"
  /\ jl.j # NilJlink
  /\ JlinkReturned("Shutdown", Shutdown(jl.j), NilJlink)

DoNumDevices ==
  /\ jl.pc = "idle"
  /\ jl.j # NilJlink
  /\ JlinkReturned("NumDevices", NumDevices(jl.j), jl.j)

DoDeviceByIndex ==
  /\ jl.pc = "idle"
  /\ jl.j # NilJlink
  /\ \E idx \in -1..MaxJlinkDevs :
       JlinkReturned("DeviceByIndex", DeviceByIndex(jl.j, idx), jl.j)

\* the caller takes the result
JlinkReturn ==
  /\ jl.pc = "done"
  /\ jl' = [NoJlink EXCEPT !.j = jl.j]
  /\ UNCHANGED <<deviceVars, callerVars, fmc, fld>>

NextJlink ==
  \/ DoJlinkInit
  \/ DoShutdown
  \/ DoNumDevices
  \/ DoDeviceByIndex
  \/ JlinkReturn

SpecJlink == InitJlink /\ [][NextJlink]_vars

(***************************************************************************)
(* Register field display.  fld.f is the Field, fld.x the value that        *)
(* util.Bits extracted for the latest Display call and fld.out what the     *)
(* call returned; fld.shown and fld.prev say whether Display was called on  *)
(* the field before and what was extracted then, fld.was the same two as    *)
(* they were when the latest call began.                                    *)
(***************************************************************************)
\* Enum: descriptive strings for some values of a field
OnOff == (0 :> "off") @@ (1 :> "on")

\* nil Enums
NoEnums == <<>>

\* "  name[lsb]" or "  name[msb:lsb]"
NameStr(f) ==
  IF f.Msb = f.Lsb
  THEN [name |-> f.Name, bits |-> <<f.Lsb>>]
  ELSE [name |-> f.Name, bits |-> <<f.Msb, f.Lsb>>]

\* ": %d %s%s" below 10, ": 0x%x %s%s" from 10 on
ValStr(x, valName, changed) ==
  [base |-> IF x < 10 THEN "%d" ELSE "0x%x", val |-> x, valName |-> valName,
   changed |-> changed]

\* Display marking a change whether or not the cache is valid
Display_validIgnored(f, x) ==
  LET changed == IF x # f.cacheVal THEN " *" ELSE ""
      valName == IF x \in DOMAIN f.Enums THEN f.Enums[x] ELSE ""
  IN  [f   |-> [f EXCEPT !.cacheVal = x, !.cacheValid = TRUE],
       out |-> <<NameStr(f), ValStr(x, valName, changed), "", f.Descr>>]

\* f.Display(val), x being util.Bits(val, f.Msb, f.Lsb); Fmt is nil
Display(f, x) ==
  LET changed == IF x # f.cacheVal /\ f.cacheValid THEN " *" ELSE ""
      valName == IF x \in DOMAIN f.Enums THEN f.Enums[x] ELSE ""
  IN  [f   |-> [f EXCEPT !.cacheVal = x, !.cacheValid = TRUE],
       out |-> <<NameStr(f), ValStr(x, valName, changed), "", f.Descr>>]

\* the fields of a register description
Fields ==
  {NewField(msb, lsb, e) : msb \in 0..MaxFieldBit, lsb \in 0..MaxFieldBit,
                           e \in {NoEnums, OnOff}}

InitField ==
  /\ InitOn({ExampleChain})
  /\ chainIR = NoChainIR
  /\ gor = NoCallers
  /\ mu = "free"
  /\ serialized = TRUE
  /\ fmc = NoFlash
  /\ jl = NoJlink
  /\ fld \in {[NoField EXCEPT !.f = f] : f \in {g \in Fields : g.Lsb <= g.Msb}}

\* Display is called on the field with a register value
DoDisplay ==
  /\ fld.pc = "idle"
  /\ \E x \in 0..MaxFieldVal :
       LET r == Display(fld.f, x)
       IN  fld' = [pc |-> "done", f |-> r.f, x |-> x, out |-> r.out,
                   shown |-> TRUE, prev |-> x,
                   was |-> [shown |-> fld.shown, prev |-> fld.prev]]
  /\ UNCHANGED <<deviceVars, callerVars, fmc, jl>>

\* the caller takes the strings
DisplayReturn ==
  /\ fld.pc = "done"
  /\ fld' = [fld EXCEPT !.pc = "idle", !.out = <<>>]
  /\ UNCHANGED <<deviceVars, callerVars, fmc, jl>>

NextField ==
  \/ DoDisplay
  \/ DisplayReturn

SpecField == InitField /\ [][NextField]_vars

(***************************************************************************)
(* Properties                                                               *)
(***************************************************************************)
Done(op) == pc = "done" /\ call.op = op

\* the chain-wide IR sequence that addresses bits to device d
PaddedIR(d, bits) == Ones(d.irlenBefore) \o bits \o Ones(d.irlenAfter)

\* the chain-wide DR sequence that addresses bits to device d
PaddedDR(d, bits) == Ones(d.devsBefore) \o bits \o Ones(d.devsAfter)

\* C1: WrIR(bits) with len(bits) = irlen issues exactly one IR scan, without
\* capture, whose input is ones(irlenBefore) ++ bits ++ ones(irlenAfter), as
\* long as the chain's total IR length; device 1 of the chain [5,4] writing
\* 1010 scans 11111 1010.
C1_WrIRScan ==
  (Done("WrIR") /\ Len(call.wr) = dev.irlen) =>
    /\ Len(scans) = 1
    /\ scans[1].op = "ScanIR"
    /\ scans[1].capture = FALSE
    /\ scans[1].tdi = PaddedIR(dev, call.wr)
    /\ Len(scans[1].tdi) = irLengthTotal(info)
    /\ (info = ExampleChain /\ dev.idx = 1 /\ call.wr = <<1, 0, 1, 0>>)
         => scans[1].tdi = <<1, 1, 1, 1, 1, 1, 0, 1, 0>>

C1_Witness ==
  /\ Done("WrIR")
  /\ info = ExampleChain
  /\ dev.idx = 1
  /\ call.wr = <<1, 0, 1, 0>>
  /\ scans[1].tdi = <<1, 1, 1, 1, 1, 1, 0, 1, 0>>

\* C2: RdWrIR(bits) issues one capturing IR scan with the padded input of
\* WrIR and on success returns the captured bits between the first
\* irlenBefore and the last irlenAfter ones: irlen bits when len(bits) = irlen.
C2_RdWrIRStrip ==
  Done("RdWrIR") =>
    /\ Len(scans) = 1
    /\ scans[1].op = "ScanIR"
    /\ scans[1].capture = TRUE
    /\ scans[1].tdi = PaddedIR(dev, call.wr)
    /\ ret.err = NilErr =>
         /\ ret.val = SubSeq(scans[1].tdo, dev.irlenBefore + 1,
                             Len(scans[1].tdo) - dev.irlenAfter)
         /\ Len(call.wr) = dev.irlen => Len(ret.val) = dev.irlen

C2_Witness ==
  /\ Done("RdWrIR")
  /\ ret.err = NilErr
  /\ dev.irlenBefore > 0
  /\ dev.irlenAfter > 0
  /\ dev.irlenBefore # dev.irlenAfter
  /\ Len(call.wr) = dev.irlen
  /\ ret.val # call.wr
  /\ \E k \in 1..dev.irlenBefore : scans[1].tdo[k] = 0

\* C3: WrDR(bits, idle) issues exactly one DR scan, without capture, whose
\* input is ones(devsBefore) ++ bits ++ ones(devsAfter) and whose idle cycle
\* count is the caller's.
C3_WrDRScan ==
  Done("WrDR") =>
    /\ Len(scans) = 1
    /\ scans[1].op = "ScanDR"
    /\ scans[1].capture = FALSE
    /\ scans[1].tdi = PaddedDR(dev, call.wr)
    /\ scans[1].idle = call.idle

C3_Witness ==
  /\ Done("WrDR")
  /\ call.idle > 0
  /\ dev.devsBefore > 0
  /\ dev.devsAfter > 0
  /\ Len(call.wr) > 0

\* C4: RdWrDR(bits, idle) issues one capturing DR scan with input
\* ones(devsBefore) ++ bits ++ ones(devsAfter) and on success returns the
\* capture less its first devsBefore and last devsAfter bits: len(bits) bits.
C4_RdWrDRStrip ==
  Done("RdWrDR") =>
    /\ Len(scans) = 1
    /\ scans[1].op = "ScanDR"
    /\ scans[1].capture = TRUE
    /\ scans[1].tdi = PaddedDR(dev, call.wr)
    /\ scans[1].idle = call.idle
    /\ ret.err = NilErr =>
         /\ ret.val = SubSeq(scans[1].tdo, dev.devsBefore + 1,
                             Len(scans[1].tdo) - dev.devsAfter)
         /\ Len(ret.val) = Len(call.wr)

C4_Witness ==
  /\ Done("RdWrDR")
  /\ ret.err = NilErr
  /\ dev.devsBefore = 2
  /\ dev.devsAfter = 0
  /\ Len(call.wr) = 2
  /\ ret.val # call.wr
  /\ scans[1].tdo[1] = 0

DeviceOps == {"WrIR", "RdWrIR", "WrDR", "RdWrDR", "GetDRLength", "testIRCapture", "CheckDR"}

\* C5: an operation that receives an error from the Scan Driver returns that
\* same error; no driver failure is reported as success.
C5_ErrorsPropagate ==
  (pc = "done" /\ call.op \in DeviceOps) =>
    \A k \in DOMAIN scans : scans[k].err # NilErr => ret.err = scans[k].err

\* the device's DR length that CheckDR observed
ObservedDRLength == scans[2].n - dev.devsBefore - dev.devsAfter

\* CheckDR wrote the instruction and probed the DR length
CheckDRProbed == Done("CheckDR") /\ Len(scans) >= 2 /\ scans[2].err = NilErr

\* C6: CheckDR(instruction, expectedLength) fails with a mismatch error that
\* carries the instruction, the observed and the expected length whenever
\* the DR length observed after writing the instruction differs from the
\* expected one, and with no mismatch error when they are equal.
C6_CheckDRMismatch ==
  /\ CheckDRProbed =>
       IF ObservedDRLength # call.drlen
       THEN ret.err = MismatchErr(call.ir, ObservedDRLength, call.drlen)
       ELSE ret.err.kind # "mismatch"
  /\ (Done("CheckDR") /\ ret.err.kind = "mismatch") =>
       CheckDRProbed /\ ObservedDRLength # call.drlen

C6_Witness ==
  /\ CheckDRProbed
  /\ ObservedDRLength # call.drlen
  /\ ObservedDRLength > 0
  /\ call.drlen > 0
  /\ call.ir > 0
  /\ ret.err.kind = "mismatch"

C6_WitnessMatch ==
  /\ CheckDRProbed
  /\ ObservedDRLength = call.drlen
  /\ ret.err = NilErr

\* C7: every device satisfies irlenBefore + irlen + irlenAfter = the sum of
\* the chain's IR lengths, irlenBefore and irlenAfter being the IR lengths
\* of the TAPs strictly before and after it.
C7_IRLengthSum ==
  /\ dev.irlen = info[dev.idx + 1].IRLength
  /\ dev.irlenBefore = SumIRLength(info, 0, dev.idx - 1)
  /\ dev.irlenAfter = SumIRLength(info, dev.idx + 1, Len(info) - 1)
  /\ dev.irlenBefore + dev.irlen + dev.irlenAfter = irLengthTotal(info)
  /\ Done("NewDevice") => dev.idx = call.idx

C7_Witness ==
  /\ Done("NewDevice")
  /\ Len(info) = 3
  /\ call.idx = 1
  /\ dev.irlenBefore # dev.irlenAfter
  /\ dev.irlen # dev.irlenAfter

\* C8: the device at index i of a chain of N TAPs has devsBefore = i and
\* devsAfter = N - i - 1, so devsBefore + 1 + devsAfter = N.
C8_DevCounts ==
  /\ dev.devsBefore = dev.idx
  /\ dev.devsAfter = Len(info) - dev.idx - 1
  /\ dev.devsBefore + 1 + dev.devsAfter = Len(info)
  /\ Done("NewDevice") => dev.devsBefore = call.idx

C8_Witness ==
  /\ Done("NewDevice")
  /\ Len(info) = 3
  /\ call.idx = 2
  /\ dev.devsBefore = 2
  /\ dev.devsAfter = 0

\* C9: every GetDRLength call probes the chain's DR length once and returns
\* the length probed by that call less devsBefore and devsAfter, or the
\* probe's error.
C9_GetDRLength ==
  Done("GetDRLength") =>
    /\ Len(scans) = 1
    /\ scans[1].op = "drLength"
    /\ IF scans[1].err = NilErr
       THEN ret = [val |-> scans[1].n - dev.devsBefore - dev.devsAfter, err |-> NilErr]
       ELSE ret.err = scans[1].err

C9_Witness ==
  /\ Done("GetDRLength")
  /\ ret.err = NilErr
  /\ dev.devsBefore = 1
  /\ dev.devsAfter = 1
  /\ scans[1].n = 4
  /\ ret.val = 2

C9_WitnessFail ==
  /\ Done("GetDRLength")
  /\ ret.err \in DrvErrors

\* the IR writes among the driver calls of the running operation
IRWrites == SelectSeq(scans, LAMBDA r : r.op = "ScanIR")

RECURSIVE SurveyReport(_, _, _)
\* the report lines that the driver calls sc of a survey account for, the
\* first call being the IR write of value i
SurveyReport(d, sc, i) ==
  IF sc = <<>> THEN <<>>
  ELSE IF sc[1].op # "ScanIR" THEN <<Line(i, "no ir write", 0)>>
  ELSE IF sc[1].err # NilErr
    THEN <<Line(i, "can't write ir", 0)>> \o SurveyReport(d, SubSeq(sc, 2, Len(sc)), i + 1)
  ELSE IF Len(sc) < 2 \/ sc[2].op # "drLength" THEN <<Line(i, "no probe", 0)>>
  ELSE IF sc[2].err # NilErr
    THEN <<Line(i, "drlen unknown", 0)>> \o SurveyReport(d, SubSeq(sc, 3, Len(sc)), i + 1)
  ELSE <<Line(i, "drlen", sc[2].n - d.devsBefore - d.devsAfter)>>
         \o SurveyReport(d, SubSeq(sc, 3, Len(sc)), i + 1)

\* C10: Survey issues exactly 2^irlen IR writes, of the values 0, 1, ...,
\* 2^irlen - 1 in ascending order, and returns exactly 2^irlen lines, one per
\* value in that order: "ir n drlen m" with m = probed length - devsBefore -
\* devsAfter when both steps succeed, an error line when the IR write or the
\* probe fails; a failure never ends the survey early.
C10_SurveyReport ==
  Done("Survey") =>
    /\ Len(IRWrites) = 2 ^ dev.irlen
    /\ \A k \in 1..Len(IRWrites) :
         /\ IRWrites[k].tdi = PaddedIR(dev, FromUint(k - 1, dev.irlen))
         /\ ToUint(SubSeq(IRWrites[k].tdi, dev.irlenBefore + 1,
                          dev.irlenBefore + dev.irlen)) = k - 1
         /\ IRWrites[k].capture = FALSE
    /\ Len(ret.val) = 2 ^ dev.irlen
    /\ \A k \in 1..Len(ret.val) : ret.val[k].ir = k - 1
    /\ ret.val = SurveyReport(dev, scans, 0)

C10_Witness ==
  /\ Done("Survey")
  /\ dev.irlen = 2
  /\ dev.devsBefore = 1
  /\ Len(ret.val) = 4
  /\ ret.val[1] = Line(0, "can't write ir", 0)
  /\ ret.val[2] = Line(1, "drlen", 2)
  /\ ret.val[3] = Line(2, "drlen unknown", 0)
  /\ ret.val[4] = Line(3, "drlen", 1)
  /\ Len(scans) = 7

\* the DR scans among the driver calls of the running operation
DRScans == SelectSeq(scans, LAMBDA r : r.op = "ScanDR")

\* C11: a successful CheckDR(instruction, expectedLength) made, in this
\* order, one write-only IR scan of the instruction, the DR-length probe and
\* one capturing DR scan of zeros(expectedLength) with 0 idle cycles, and
\* returns the stripped DR capture as an unsigned integer; when the length
\* check fails no DR scan is made.
C11_CheckDROrder ==
  Done("CheckDR") =>
    /\ ret.err = NilErr =>
         /\ Len(scans) = 3
         /\ scans[1].op = "ScanIR"
         /\ scans[1].capture = FALSE
         /\ scans[1].tdi = PaddedIR(dev, FromUint(call.ir, dev.irlen))
         /\ scans[2].op = "drLength"
         /\ scans[3].op = "ScanDR"
         /\ scans[3].capture = TRUE
         /\ scans[3].idle = 0
         /\ scans[3].tdi = PaddedDR(dev, Zeros(call.drlen))
         /\ ret.val = ToUint(SubSeq(scans[3].tdo, dev.devsBefore + 1,
                                    dev.devsBefore + call.drlen))
    /\ ret.err.kind = "mismatch" => DRScans = <<>>

\* the captured IR bits of the device itself in a chain-wide IR capture
OwnIRCapture == SubSeq(scans[1].tdo, dev.irlenBefore + 1, dev.irlenBefore + dev.irlen)

\* C13: testIRCapture shifts irlen ones into the device's IR with capture
\* and returns true exactly if the two least significant bits of the
\* device's own capture are 01; a failed scan gives false and the scan's
\* error.
C13_TestIRCapture ==
  Done("testIRCapture") =>
    /\ Len(scans) = 1
    /\ scans[1].op = "ScanIR"
    /\ scans[1].capture = TRUE
    /\ scans[1].tdi = PaddedIR(dev, Ones(dev.irlen))
    /\ IF scans[1].err = NilErr
       THEN /\ ret.err = NilErr
            /\ ret.val = (/\ OwnIRCapture[dev.irlen] = 1
                          /\ dev.irlen >= 2 => OwnIRCapture[dev.irlen - 1] = 0)
       ELSE ret = [val |-> FALSE, err |-> scans[1].err]

C13_Witness ==
  /\ Done("testIRCapture")
  /\ ret.err = NilErr
  /\ ret.val = TRUE
  /\ dev.irlen = 5
  /\ OwnIRCapture = <<1, 0, 1, 0, 1>>

C13_WitnessFalse ==
  /\ Done("testIRCapture")
  /\ ret.err = NilErr
  /\ ret.val = FALSE
  /\ dev.irlen = 2
  /\ dev.irlenBefore > 0
  /\ OwnIRCapture = <<1, 1>>

\* RdWrIR(ones(irlen)) is returning successfully, the latest IR scan
\* before it having been made for the same device
RoundTripStep ==
  /\ pc = "idle"
  /\ pc' = "done"
  /\ call'.op = "RdWrIR"
  /\ call'.wr = Ones(dev.irlen)
  /\ ret'.err = NilErr
  /\ chainIR.by = dev.idx

\* C12: with a loopback driver, WrIR(bits) with len(bits) = irlen followed
\* by RdWrIR(ones(irlen)) on the same device returns bits: the capture is
\* the chain-wide sequence given before, and its stripped part is bits.
C12_LoopbackRoundTrip ==
  [][RoundTripStep => (scans'[1].tdo = chainIR.bits /\ ret'.val = chainIR.wr)]_vars

C12_Witness ==
  /\ Done("RdWrIR")
  /\ ret.err = NilErr
  /\ call.wr = Ones(dev.irlen)
  /\ dev.idx = 1
  /\ Len(info) = 3
  /\ dev.irlen = 2
  /\ dev.irlenBefore # dev.irlenAfter
  /\ scans[1].tdo = PaddedIR(dev, <<1, 0>>)
  /\ ret.val = <<1, 0>>

\* the TAPs other than k hold all ones in their IR
OthersInBypass(k) ==
  \A j \in 0..(Len(info) - 1) :
    j # k => TapIR(info, chainIR.bits, j) = Ones(info[j + 1].IRLength)

\* the DR width selected by the instruction in the IR of TAP k
LoadedDRWidth(k) == TapDRWidth(info[k + 1].IRLength, ToUint(TapIR(info, chainIR.bits, k)))

\* C16: on a chain whose TAPs take all ones as BYPASS, after successful
\* WrIR/RdWrIR calls every device other than the latest writer has all ones
\* in its IR, the chain's DR length is devsBefore + devsAfter + the DR width
\* of the writer's instruction, and GetDRLength on the writer returns that
\* width.
C16_OthersBypassed ==
  chainIR.by >= 0 =>
    /\ OthersInBypass(chainIR.by)
    /\ ChainDRLength(info, chainIR.bits) = Len(info) - 1 + LoadedDRWidth(chainIR.by)
    /\ (Done("GetDRLength") /\ ret.err = NilErr /\ dev.idx = chainIR.by) =>
         /\ scans[1].n = dev.devsBefore + dev.devsAfter + LoadedDRWidth(dev.idx)
         /\ ret.val = LoadedDRWidth(dev.idx)

C16_Witness ==
  /\ Done("GetDRLength")
  /\ ret.err = NilErr
  /\ Len(info) = 3
  /\ dev.idx = 1
  /\ chainIR.by = 1
  /\ ret.val = 2

\* the operations that end at the first failure of the Scan Driver
FailFastOps == {"WrIR", "RdWrIR", "WrDR", "RdWrDR", "GetDRLength", "CheckDR"}

\* the driver call k of the running survey is a failed IR write
FailedIRWrite(k) == scans[k].op = "ScanIR" /\ scans[k].err # NilErr

\* C14: no retry.  A driver call that failed inside WrIR, RdWrIR, WrDR,
\* RdWrDR, GetDRLength or CheckDR is the last driver call of that operation.
\* In Survey the driver call after a failed IR write is the IR write of
\* another value, never a DR-length probe, and no later IR write is of the
\* value whose write failed.
C14_NoRetry ==
  /\ (pc = "done" /\ call.op \in FailFastOps) =>
       \A k \in DOMAIN scans : scans[k].err # NilErr => k = Len(scans)
  /\ call.op = "Survey" =>
       \A k \in DOMAIN scans : FailedIRWrite(k) =>
         /\ k < Len(scans) => scans[k + 1].op = "ScanIR"
         /\ \A j \in DOMAIN scans :
              (j # k /\ scans[j].op = "ScanIR") => scans[j].tdi # scans[k].tdi

C14_Witness ==
  /\ Done("Survey")
  /\ dev.irlen = 2
  /\ Len(scans) = 6
  /\ FailedIRWrite(1)
  /\ FailedIRWrite(2)
  /\ scans[3].op = "ScanIR"
  /\ scans[3].err = NilErr
  /\ scans[4].op = "drLength"

C14_WitnessCheckDR ==
  /\ Done("CheckDR")
  /\ Len(scans) = 2
  /\ scans[1].err = NilErr
  /\ scans[2].op = "drLength"
  /\ scans[2].err # NilErr

\* a step of one of the Device operations, Survey's steps included
DeviceOpStep == call'.op \in DeviceOps \cup {"Survey"}

\* C17: no Device operation, succeeding or failing, changes the Device's
\* idx, irlen, irlenBefore, irlenAfter, devsBefore or devsAfter or the
\* chain's TAP descriptors; only NewDevice sets the Device's fields.
C17_DeviceFrame ==
  [][/\ info' = info
     /\ DeviceOpStep => dev' = dev
     /\ dev' = NewDevice(info, dev'.idx)]_vars

C17_Witness ==
  /\ Done("CheckDR")
  /\ ret.err # NilErr
  /\ Len(info) = 2
  /\ dev.idx = 1
  /\ dev.irlenBefore = 2
  /\ dev.devsBefore = 1

C17_WitnessSurvey ==
  /\ Done("Survey")
  /\ dev.idx = 1
  /\ dev.irlenBefore = 1
  /\ Len(ret.val) = 4

\* the callers inside a driver call
ScansInFlight == {g \in Callers : gor[g].pc = "scan"}

OneScanInFlight == Cardinality(ScansInFlight) <= 1

\* no operation makes a driver call after another caller's driver call came
\* between its own
NotInterleaved == \A g \in Callers : ~(gor[g].pc = "scan" /\ gor[g].cut)

\* an operation that has returned has no driver call left to make
NoBackgroundWork == \A g \in Callers : gor[g].pc = "idle" => gor[g].todo = <<>>

\* C15 as stated: at most one scan is in flight on a chain at any instant,
\* the scans of a multi-scan operation are not interleaved with those of
\* another caller's operation, and no operation leaves work behind when it
\* returns.
C15_OneScanInFlight ==
  /\ OneScanInFlight
  /\ NotInterleaved
  /\ NoBackgroundWork

\* C15 (amended): when the callers of a chain go through one lock per chain,
\* at most one scan is in flight and the scans of a multi-scan operation are
\* not interleaved with another caller's; with or without the lock, every
\* operation makes all its driver calls before it returns.
C15_SerializedCallers ==
  /\ serialized => (OneScanInFlight /\ NotInterleaved)
  /\ NoBackgroundWork

C15_Witness ==
  /\ serialized
  /\ gor["a"].pc = "scan"
  /\ gor["a"].op = "CheckDR"
  /\ gor["a"].began
  /\ Len(gor["a"].todo) = 2
  /\ gor["b"].pc = "wait"
  /\ gor["b"].op = "Survey"

\* a flash driver operation has returned
FlashDone(op) == fmc.pc = "done" /\ fmc.op = op

\* a register access without its outcome
Access(c) == <<c.op, c.reg, c.val>>

\* the register accesses of a complete unlock, given what CTL0 read as
UnlockSteps(rd) ==
  IF rd.err = NilErr /\ (rd.rd[2] \div 128) % 2 = 1
  THEN << <<"Rd", "CTL0", Word(0, 0)>>, <<"Wr", "KEY0", Word(17767, 291)>>,
          <<"Wr", "KEY0", Word(52719, 35243)>>, <<"Wr", "CTL0", Word(0, 0)>> >>
  ELSE << <<"Rd", "CTL0", Word(0, 0)>> >>

\* the register accesses of a complete EraseAll: unlock, set MER (bit 2),
\* set START (bit 6), clear MER, set LK (bit 7)
EraseAllSteps(rd) ==
  UnlockSteps(rd) \o << <<"Set", "CTL0", Word(0, 4)>>, <<"Set", "CTL0", Word(0, 64)>>,
                        <<"Clr", "CTL0", Word(0, 4)>>, <<"Set", "CTL0", Word(0, 128)>> >>

\* the operation made the first accesses of steps, in order, stopped at the
\* first that failed and returned its error, and succeeded only by making
\* them all
RanInOrder(steps) ==
  /\ fmc.log # <<>>
  /\ Len(fmc.log) <= Len(steps)
  /\ \A k \in DOMAIN fmc.log : Access(fmc.log[k]) = steps[k]
  /\ \A k \in 1..(Len(fmc.log) - 1) : fmc.log[k].err = NilErr
  /\ fmc.err = fmc.log[Len(fmc.log)].err
  /\ fmc.err = NilErr => Len(fmc.log) = Len(steps)

\* C18: EraseAll performs unlock, set MER, set START, clear MER, lock in
\* that order, stops at the first failing step and returns its error; the
\* lock step is executed if and only if every earlier step succeeded, and a
\* successful EraseAll ends with the setting of the lock bit.
C18_EraseAllOrder ==
  FlashDone("EraseAll") =>
    LET steps == EraseAllSteps(fmc.log[1])
    IN  /\ RanInOrder(steps)
        /\ (Len(fmc.log) = Len(steps)) <=>
             (\A k \in 1..(Len(steps) - 1) :
                k <= Len(fmc.log) /\ fmc.log[k].err = NilErr)
        /\ fmc.err = NilErr =>
             /\ Access(fmc.log[Len(fmc.log)]) = <<"Set", "CTL0", Word(0, 128)>>
             /\ fmc.log[Len(fmc.log)].err = NilErr

C18_Witness ==
  /\ FlashDone("EraseAll")
  /\ fmc.err = NilErr
  /\ Len(fmc.log) = 8
  /\ fmc.log[1].rd = Word(0, 128)

C18_WitnessFail ==
  /\ FlashDone("EraseAll")
  /\ fmc.err = TransportErr("timeout")
  /\ Len(fmc.log) = 4
  /\ fmc.log[1].rd = Word(0, 576)
  /\ fmc.log[4].op = "Clr"

\* C19: unlock first reads CTL0; with the lock bit (bit 7) clear it writes
\* no register and succeeds; otherwise it writes 0x45670123 then 0xCDEF89AB
\* to KEY0, then 0 to CTL0, returning the first error met and skipping the
\* writes after it.
C19_UnlockSequence ==
  FlashDone("unlock") =>
    /\ RanInOrder(UnlockSteps(fmc.log[1]))
    /\ (fmc.log[1].err = NilErr /\ (fmc.log[1].rd[2] \div 128) % 2 = 0) =>
         (Len(fmc.log) = 1 /\ fmc.err = NilErr)
    /\ \A k \in DOMAIN fmc.log : k > 1 => fmc.log[k].op = "Wr"

C19_Witness ==
  /\ FlashDone("unlock")
  /\ fmc.err = NilErr
  /\ Len(fmc.log) = 4
  /\ fmc.log[1].rd = Word(0, 640)

C19_WitnessUnlocked ==
  /\ FlashDone("unlock")
  /\ fmc.err = NilErr
  /\ Len(fmc.log) = 1
  /\ fmc.log[1].rd = Word(0, 580)

\* jlink.Init has returned
InitDone == jl.pc = "done" /\ jl.op = "Init"

\* the calls of ctx.Exit among the library calls made
Exits == SelectSeq(jl.calls, LAMBDA c : c.name = "Exit")

\* the library calls that failed
FailedCalls == SelectSeq(jl.calls, LAMBDA c : c.err # NilErr)

\* C20: when a step of jlink.Init after a successful libjaylink.Init fails
\* (LogSetCallback, LogSetLevel, DiscoveryScan, GetDevices), ctx.Exit is
\* called exactly once, after the failing step, and Init returns a nil Jlink
\* with that step's error; when every step succeeds Exit is not called and
\* the Jlink returned holds the context and the devices GetDevices gave.
C20_InitReleasesContext ==
  (InitDone /\ jl.calls[1].err = NilErr) =>
    IF FailedCalls # <<>>
    THEN /\ Len(Exits) = 1
         /\ jl.calls[Len(jl.calls)].name = "Exit"
         /\ jl.calls[Len(jl.calls) - 1] = FailedCalls[1]
         /\ Len(FailedCalls) = 1
         /\ jl.val = NilJlink
         /\ jl.err = FailedCalls[1].err
    ELSE /\ Len(Exits) = 0
         /\ [k \in DOMAIN jl.calls |-> jl.calls[k].name] =
              <<"Init", "LogSetCallback", "LogSetLevel", "DiscoveryScan", "GetDevices">>
         /\ jl.val = [ctx |-> "ctx", dev |-> jl.calls[5].out]
         /\ jl.err = NilErr
         /\ jl.j = jl.val

C20_Witness ==
  /\ InitDone
  /\ Len(jl.calls) = 5
  /\ jl.calls[4].name = "DiscoveryScan"
  /\ jl.calls[4].err # NilErr
  /\ jl.calls[5].name = "Exit"
  /\ jl.val = NilJlink

C20_WitnessSuccess ==
  /\ InitDone
  /\ jl.err = NilErr
  /\ jl.val.dev = <<"sn2", "sn1">>

\* the last IR write of the survey
LastIRWrite == IRWrites[Len(IRWrites)]

\* every TAP of the chain holds all ones in its IR
AllInBypass ==
  \A k \in 0..(Len(info) - 1) : TapIR(info, chainIR.bits, k) = Ones(info[k + 1].IRLength)

\* C21: after a Survey whose final IR write succeeded, the last IR value
\* written to the surveyed device is 2^irlen - 1, the chain-wide IR that
\* the last IR scan loaded is all ones, and every TAP, the surveyed one
\* included, is in BYPASS.
C21_SurveyEndsInBypass ==
  (Done("Survey") /\ IRWrites # <<>> /\ LastIRWrite.err = NilErr) =>
    /\ ToUint(SubSeq(LastIRWrite.tdi, dev.irlenBefore + 1,
                     dev.irlenBefore + dev.irlen)) = 2 ^ dev.irlen - 1
    /\ LastIRWrite.tdi = Ones(irLengthTotal(info))
    /\ chainIR.bits = Ones(irLengthTotal(info))
    /\ AllInBypass

C21_Witness ==
  /\ Done("Survey")
  /\ Len(info) = 2
  /\ dev.idx = 1
  /\ dev.irlen = 2
  /\ dev.irlenBefore = 2
  /\ Len(IRWrites) = 4
  /\ IRWrites[3].err # NilErr
  /\ LastIRWrite.err = NilErr
  /\ AllInBypass

\* Display has returned
DisplayDone == fld.pc = "done"

\* the latest Display call marked its value as changed
MarkedChanged == fld.out[2].changed = " *"

\* C22: a Display call marks the value as changed if and only if Display
\* was called on the field before and the value extracted by this call
\* differs from the value extracted by the call just before it; the first
\* call marks no change; after every call the cache is valid and holds the
\* value this call extracted.
C22_DisplayChangeMark ==
  DisplayDone =>
    /\ MarkedChanged <=> (fld.was.shown /\ fld.x # fld.was.prev)
    /\ ~fld.was.shown => ~MarkedChanged
    /\ fld.out[2].changed \in {"", " *"}
    /\ fld.f.cacheValid
    /\ fld.f.cacheVal = fld.x

C22_Witness ==
  /\ DisplayDone
  /\ fld.was.shown
  /\ fld.was.prev = 0
  /\ fld.x = 10
  /\ MarkedChanged

C22_WitnessFirst ==
  /\ DisplayDone
  /\ ~fld.was.shown
  /\ fld.x = 1
  /\ ~MarkedChanged

C22_WitnessSame ==
  /\ DisplayDone
  /\ fld.was.shown
  /\ fld.was.prev = 1
  /\ fld.x = 1
  /\ ~MarkedChanged

====
